---- MODULE Spec2Model ----
(***************************************************************************)
(* Model of CodeImplementationAnalysis.apply_patches and of the manual     *)
(* patch engine _apply_patch_manually (src/code_implementation_analysis.py)*)
(*                                                                         *)
(* Text is modelled character by character: a string is a sequence of      *)
(* one-character strings, a file's content is such a sequence (with "\n"   *)
(* as the line terminator), and a patch file is the sequence of the lines  *)
(* that patch_content.split('\n') yields.                                  *)
(***************************************************************************)
EXTENDS Integers, Sequences, FiniteSets, TLC

\* ------------------------------------------------------------------ bounds
\* Longest file of the original tree, in lines.
MaxFileLines == 2
\* Most body lines of a generated hunk.
MaxHunkLines == 2
\* Largest old_start written in a generated hunk header.
MaxOldStart == 3

\* range(1, 5): the patches implementation_1 .. implementation_4.
NumPatches == 4

\* --------------------------------------------------------------- characters
NL == "\n"
Whitespace == {" ", "\t"}
Digits == <<"0", "1", "2", "3", "4", "5", "6", "7", "8", "9">>
\* A byte sequence that is not valid UTF-8, as one pseudo character.
BadByte == "0xFF"

DiffGitPrefix == <<"d","i","f","f"," ","-","-","g","i","t">>
NewFilePrefix == <<"n","e","w"," ","f","i","l","e"," ","m","o","d","e">>
IndexPrefix == <<"i","n","d","e","x">>
HunkPrefix == <<"@","@">>
ThreeDots == <<".",".",".">>
GitBinaryPatch == <<"G","I","T"," ","b","i","n","a","r","y"," ","p","a","t","c","h">>
BinaryFiles == <<"B","i","n","a","r","y"," ","f","i","l","e","s">>
NoNewlineText == <<"N","o"," ","n","e","w","l","i","n","e"," ","a","t"," ","e","n","d"," ","o","f"," ","f","i","l","e">>

\* ------------------------------------------------------------ str methods
\* s.startswith(p)
StartsWith(s, p) == Len(s) >= Len(p) /\ SubSeq(s, 1, Len(p)) = p

\* s.endswith(p)
EndsWith(s, p) == Len(s) >= Len(p) /\ SubSeq(s, Len(s) - Len(p) + 1, Len(s)) = p

\* p in s
Contains(s, p) == \E k \in 1..(Len(s) - Len(p) + 1) : SubSeq(s, k, k + Len(p) - 1) = p

\* s[n:]
DropFirst(s, n) == SubSeq(s, n + 1, Len(s))

\* s.split(): the maximal runs of non-whitespace characters, in order.
RECURSIVE SplitWS(_)
SplitWS(s) ==
    IF s = <<>> THEN <<>>
    ELSE IF s[1] \in Whitespace THEN SplitWS(Tail(s))
    ELSE LET ends == {k \in 1..Len(s) : k = Len(s) \/ s[k + 1] \in Whitespace}
             e == CHOOSE k \in ends : \A m \in ends : k <= m
         IN <<SubSeq(s, 1, e)>> \o SplitWS(DropFirst(s, e))

\* s.split(',')[0]
BeforeComma(s) ==
    IF \E k \in 1..Len(s) : s[k] = ","
    THEN LET k == CHOOSE j \in 1..Len(s) : s[j] = "," /\ \A m \in 1..(j - 1) : s[m] # ","
         IN SubSeq(s, 1, k - 1)
    ELSE s

IsDigit(c) == \E d \in 1..10 : Digits[d] = c
DigitValue(c) == (CHOOSE d \in 1..10 : Digits[d] = c) - 1

RECURSIVE DigitsValue(_)
DigitsValue(s) ==
    IF s = <<>> THEN 0 ELSE 10 * DigitsValue(SubSeq(s, 1, Len(s) - 1)) + DigitValue(s[Len(s)])

\* int(s) accepts an optional sign followed by decimal digits.
IntParses(s) ==
    LET body == IF s # <<>> /\ s[1] \in {"+", "-"} THEN Tail(s) ELSE s
    IN body # <<>> /\ \A k \in 1..Len(body) : IsDigit(body[k])

\* int(s), for s with IntParses(s); otherwise int raises ValueError.
IntValue(s) ==
    IF s[1] = "-" THEN 0 - DigitsValue(Tail(s))
    ELSE IF s[1] = "+" THEN DigitsValue(Tail(s))
    ELSE DigitsValue(s)

\* The patch file's text contains the needle (a needle holds no "\n", so it
\* lies within one line of the text).
ContentContains(lines, p) == \E k \in 1..Len(lines) : Contains(lines[k], p)

\* ----------------------------------------------------------------- parser
\* old_info / new_info of a hunk header: the range field without its sign,
\* cut at the first comma.
RangeStart(field) == BeforeComma(DropFirst(field, 1))

\* The lines collected into a hunk starting after header line i: the body
\* lines up to the next hunk header or file header (or the end).
RECURSIVE HunkEnd(_, _)
HunkEnd(lines, j) ==
    IF j <= Len(lines) /\ ~StartsWith(lines[j], HunkPrefix)
                       /\ ~StartsWith(lines[j], DiffGitPrefix)
    THEN HunkEnd(lines, j + 1)
    ELSE j

\* Whether the collecting loop keeps body line l.
KeptInHunk(l) ==
    \/ l = <<>>
    \/ l[1] \in {"+", "-", " "}
    \/ l[1] = "\\"

RECURSIVE SelectKept(_)
SelectKept(ls) ==
    IF ls = <<>> THEN <<>>
    ELSE (IF KeptInHunk(ls[1]) THEN <<ls[1]>> ELSE <<>>) \o SelectKept(Tail(ls))

NoFile == <<>>
EmptyEntry == [hunks |-> <<>>, is_new_file |-> FALSE, is_binary |-> FALSE]

\* file_changes[key] = value on an insertion-ordered dict.
DictSet(d, key, value) ==
    [order |-> IF key \in DOMAIN d.info THEN d.order ELSE Append(d.order, key),
     info  |-> [k \in (DOMAIN d.info) \cup {key} |-> IF k = key THEN value ELSE d.info[k]]]

ParserInit ==
    [ok |-> TRUE, current_file |-> NoFile, has_file |-> FALSE,
     file_changes |-> [order |-> <<>>, info |-> <<>>],
     is_new_file |-> FALSE, is_binary |-> FALSE]

\* ParseStep without the step back after a hunk's lines were collected: the
\* line that ended the hunk is passed over.
ParseStepConsumesBoundary(lines, i, st) ==
    LET line == lines[i]
        cur == st.current_file
        \* "if current_file": a path was seen and it is not the empty string
        curSet == st.has_file /\ cur # <<>>
    IN
    IF StartsWith(line, DiffGitPrefix) THEN
        LET parts == SplitWS(line) IN
        IF Len(parts) >= 4
        THEN LET p == DropFirst(parts[4], 2) IN
             [next |-> i + 1,
              st |-> [st EXCEPT !.current_file = p, !.has_file = TRUE,
                                !.file_changes = DictSet(@, p, EmptyEntry),
                                !.is_new_file = FALSE, !.is_binary = FALSE]]
        ELSE [next |-> i + 1, st |-> st]
    ELSE IF StartsWith(line, NewFilePrefix) THEN
        IF curSet
        THEN [next |-> i + 1,
              st |-> [st EXCEPT !.file_changes.info[cur].is_new_file = TRUE,
                                !.is_new_file = TRUE]]
        ELSE [next |-> i + 1, st |-> st]
    ELSE IF StartsWith(line, IndexPrefix) /\ curSet THEN
        IF Contains(line, ThreeDots)
           /\ (ContentContains(lines, GitBinaryPatch) \/ ContentContains(lines, BinaryFiles))
        THEN [next |-> i + 1,
              st |-> [st EXCEPT !.file_changes.info[cur].is_binary = TRUE,
                                !.is_binary = TRUE]]
        ELSE [next |-> i + 1, st |-> st]
    ELSE IF StartsWith(line, HunkPrefix) /\ curSet /\ ~st.is_binary THEN
        LET hunk_match == SplitWS(line) IN
        IF Len(hunk_match) >= 3
        THEN LET old_info == RangeStart(hunk_match[2])
                 new_info == RangeStart(hunk_match[3])
             IN
             IF IntParses(old_info) /\ IntParses(new_info)
             THEN LET e == HunkEnd(lines, i + 1)
                      hunk == [old_start |-> IntValue(old_info),
                               new_start |-> IntValue(new_info),
                               lines |-> SelectKept(SubSeq(lines, i + 1, e - 1))]
                  IN [next |-> e + 1,
                      st |-> [st EXCEPT !.file_changes.info[cur].hunks = Append(@, hunk)]]
             ELSE \* int() raises ValueError
                  [next |-> i + 1, st |-> [st EXCEPT !.ok = FALSE]]
        ELSE [next |-> i + 1, st |-> st]
    ELSE [next |-> i + 1, st |-> st]

\* One iteration of the scanning loop at line i: the parser state after it
\* and the index of the next line examined.
ParseStep(lines, i, st) ==
    LET line == lines[i]
        cur == st.current_file
        \* "if current_file": a path was seen and it is not the empty string
        curSet == st.has_file /\ cur # <<>>
    IN
    IF StartsWith(line, DiffGitPrefix) THEN
        LET parts == SplitWS(line) IN
        IF Len(parts) >= 4
        THEN LET p == DropFirst(parts[4], 2) IN
             [next |-> i + 1,
              st |-> [st EXCEPT !.current_file = p, !.has_file = TRUE,
                                !.file_changes = DictSet(@, p, EmptyEntry),
                                !.is_new_file = FALSE, !.is_binary = FALSE]]
        ELSE [next |-> i + 1, st |-> st]
    ELSE IF StartsWith(line, NewFilePrefix) THEN
        IF curSet
        THEN [next |-> i + 1,
              st |-> [st EXCEPT !.file_changes.info[cur].is_new_file = TRUE,
                                !.is_new_file = TRUE]]
        ELSE [next |-> i + 1, st |-> st]
    ELSE IF StartsWith(line, IndexPrefix) /\ curSet THEN
        IF Contains(line, ThreeDots)
           /\ (ContentContains(lines, GitBinaryPatch) \/ ContentContains(lines, BinaryFiles))
        THEN [next |-> i + 1,
              st |-> [st EXCEPT !.file_changes.info[cur].is_binary = TRUE,
                                !.is_binary = TRUE]]
        ELSE [next |-> i + 1, st |-> st]
    ELSE IF StartsWith(line, HunkPrefix) /\ curSet /\ ~st.is_binary THEN
        LET hunk_match == SplitWS(line) IN
        IF Len(hunk_match) >= 3
        THEN LET old_info == RangeStart(hunk_match[2])
                 new_info == RangeStart(hunk_match[3])
             IN
             IF IntParses(old_info) /\ IntParses(new_info)
             THEN LET e == HunkEnd(lines, i + 1)
                      hunk == [old_start |-> IntValue(old_info),
                               new_start |-> IntValue(new_info),
                               lines |-> SelectKept(SubSeq(lines, i + 1, e - 1))]
                  IN [next |-> e,
                      st |-> [st EXCEPT !.file_changes.info[cur].hunks = Append(@, hunk)]]
             ELSE \* int() raises ValueError
                  [next |-> i + 1, st |-> [st EXCEPT !.ok = FALSE]]
        ELSE [next |-> i + 1, st |-> st]
    ELSE [next |-> i + 1, st |-> st]

RECURSIVE ParseFrom(_, _, _)
ParseFrom(lines, i, st) ==
    IF i > Len(lines) \/ ~st.ok THEN st
    ELSE LET r == ParseStep(lines, i, st) IN ParseFrom(lines, r.next, r.st)

\* The parsing loop over the whole patch text.
Parse(lines) == ParseFrom(lines, 1, ParserInit)

\* ------------------------------------------------------------ file content
\* f.readlines(): the content cut after every "\n", terminators kept.
RECURSIVE ReadLines(_)
ReadLines(content) ==
    IF content = <<>> THEN <<>>
    ELSE IF \E k \in 1..Len(content) : content[k] = NL
    THEN LET k == CHOOSE j \in 1..Len(content) :
                      content[j] = NL /\ \A m \in 1..(j - 1) : content[m] # NL
         IN <<SubSeq(content, 1, k)>> \o ReadLines(DropFirst(content, k))
    ELSE <<content>>

\* f.writelines(lines): the lines written one after the other.
RECURSIVE WriteLines(_)
WriteLines(ls) == IF ls = <<>> THEN <<>> ELSE ls[1] \o WriteLines(Tail(ls))

\* '\n'.join(ls)
RECURSIVE JoinNL(_)
JoinNL(ls) ==
    IF ls = <<>> THEN <<>>
    ELSE IF Len(ls) = 1 THEN ls[1]
    ELSE ls[1] \o <<NL>> \o JoinNL(Tail(ls))

\* Decoding the bytes of a file as UTF-8 raises UnicodeDecodeError.
Undecodable(content) == \E k \in 1..Len(content) : content[k] = BadByte

\* ------------------------------------------------------------ hunk applier
\* The lines of a hunk with the given marker, marker removed, "\n" appended.
RECURSIVE Marked(_, _)
Marked(hunk_lines, marker) ==
    IF hunk_lines = <<>> THEN <<>>
    ELSE (IF StartsWith(hunk_lines[1], <<marker>>)
          THEN <<DropFirst(hunk_lines[1], 1) \o <<NL>> >>
          ELSE <<>>) \o Marked(Tail(hunk_lines), marker)

Additions(hunk) == Marked(hunk.lines, "+")
Removals(hunk) == Marked(hunk.lines, "-")

\* The 0-based indexes at which the enumerate loop finds the removed block.
MatchesAt(modified_lines, removals) ==
    {k \in 0..(Len(modified_lines) - 1) :
        /\ k <= Len(modified_lines) - Len(removals)
        /\ SubSeq(modified_lines, k + 1, k + Len(removals)) = removals}

\* The index at which the loop breaks: the first match.
FirstMatch(modified_lines, removals) ==
    LET ms == MatchesAt(modified_lines, removals)
    IN CHOOSE k \in ms : \A m \in ms : k <= m

\* modified_lines[a:b] = block (0-based slice assignment)
SpliceLines(modified_lines, a, b, block) ==
    SubSeq(modified_lines, 1, a) \o block \o SubSeq(modified_lines, b + 1, Len(modified_lines))

\* Whether the hunk's branch assigns to modified_lines.
HunkTakesEffect(modified_lines, hunk) ==
    LET additions == Additions(hunk)
        removals == Removals(hunk)
    IN IF removals # <<>> /\ additions # <<>>
       THEN MatchesAt(modified_lines, removals) # {}
       ELSE IF additions # <<>>
       THEN 0 <= hunk.old_start - 1 /\ hunk.old_start - 1 <= Len(modified_lines)
       ELSE IF removals # <<>>
       THEN MatchesAt(modified_lines, removals) # {}
       ELSE FALSE

\* ApplyHunk with a pure addition placed at old_start instead of old_start - 1.
ApplyHunkOffByOne(modified_lines, hunk) ==
    LET additions == Additions(hunk)
        removals == Removals(hunk)
        start_line == hunk.old_start
    IN IF removals # <<>> /\ additions # <<>>
       THEN IF MatchesAt(modified_lines, removals) # {}
            THEN LET k == FirstMatch(modified_lines, removals)
                 IN SpliceLines(modified_lines, k, k + Len(removals), additions)
            ELSE modified_lines
       ELSE IF additions # <<>>
       THEN IF 0 <= start_line /\ start_line <= Len(modified_lines)
            THEN SpliceLines(modified_lines, start_line, start_line, additions)
            ELSE modified_lines
       ELSE IF removals # <<>>
       THEN IF MatchesAt(modified_lines, removals) # {}
            THEN LET k == FirstMatch(modified_lines, removals)
                 IN SpliceLines(modified_lines, k, k + Len(removals), <<>>)
            ELSE modified_lines
       ELSE modified_lines

\* The index of the last match instead of the first.
LastMatch(modified_lines, removals) ==
    LET ms == MatchesAt(modified_lines, removals)
    IN CHOOSE k \in ms : \A m \in ms : k >= m

\* ApplyHunk with a replacement made at the last match of the removed block.
ApplyHunkLastMatch(modified_lines, hunk) ==
    LET additions == Additions(hunk)
        removals == Removals(hunk)
        start_line == hunk.old_start - 1
    IN IF removals # <<>> /\ additions # <<>>
       THEN IF MatchesAt(modified_lines, removals) # {}
            THEN LET k == LastMatch(modified_lines, removals)
                 IN SpliceLines(modified_lines, k, k + Len(removals), additions)
            ELSE modified_lines
       ELSE IF additions # <<>>
       THEN IF 0 <= start_line /\ start_line <= Len(modified_lines)
            THEN SpliceLines(modified_lines, start_line, start_line, additions)
            ELSE modified_lines
       ELSE IF removals # <<>>
       THEN IF MatchesAt(modified_lines, removals) # {}
            THEN LET k == FirstMatch(modified_lines, removals)
                 IN SpliceLines(modified_lines, k, k + Len(removals), <<>>)
            ELSE modified_lines
       ELSE modified_lines

\* The match at old_start - 1 when the removed block matches there, else the
\* first match.
MatchNearOldStart(modified_lines, removals, old_start) ==
    IF old_start - 1 \in MatchesAt(modified_lines, removals)
    THEN old_start - 1
    ELSE FirstMatch(modified_lines, removals)

\* ApplyHunk with replacements and deletions made where old_start points,
\* when the removed block matches there.
ApplyHunkAtOldStart(modified_lines, hunk) ==
    LET additions == Additions(hunk)
        removals == Removals(hunk)
        start_line == hunk.old_start - 1
    IN IF removals # <<>> /\ additions # <<>>
       THEN IF MatchesAt(modified_lines, removals) # {}
            THEN LET k == MatchNearOldStart(modified_lines, removals, hunk.old_start)
                 IN SpliceLines(modified_lines, k, k + Len(removals), additions)
            ELSE modified_lines
       ELSE IF additions # <<>>
       THEN IF 0 <= start_line /\ start_line <= Len(modified_lines)
            THEN SpliceLines(modified_lines, start_line, start_line, additions)
            ELSE modified_lines
       ELSE IF removals # <<>>
       THEN IF MatchesAt(modified_lines, removals) # {}
            THEN LET k == MatchNearOldStart(modified_lines, removals, hunk.old_start)
                 IN SpliceLines(modified_lines, k, k + Len(removals), <<>>)
            ELSE modified_lines
       ELSE modified_lines

\* One iteration of "for hunk in file_info['hunks']" on an existing file.
ApplyHunk(modified_lines, hunk) ==
    LET additions == Additions(hunk)
        removals == Removals(hunk)
        start_line == hunk.old_start - 1
    IN IF removals # <<>> /\ additions # <<>>
       THEN IF MatchesAt(modified_lines, removals) # {}
            THEN LET k == FirstMatch(modified_lines, removals)
                 IN SpliceLines(modified_lines, k, k + Len(removals), additions)
            ELSE modified_lines
       ELSE IF additions # <<>>
       THEN IF 0 <= start_line /\ start_line <= Len(modified_lines)
            THEN SpliceLines(modified_lines, start_line, start_line, additions)
            ELSE modified_lines
       ELSE IF removals # <<>>
       THEN IF MatchesAt(modified_lines, removals) # {}
            THEN LET k == FirstMatch(modified_lines, removals)
                 IN SpliceLines(modified_lines, k, k + Len(removals), <<>>)
            ELSE modified_lines
       ELSE modified_lines

\* The hunk loop over an existing file: the lines after each hunk, in order
\* (element n is modified_lines after the first n hunks).
RECURSIVE HunkSteps(_, _)
HunkSteps(modified_lines, hunks) ==
    IF hunks = <<>> THEN <<>>
    ELSE LET after == ApplyHunk(modified_lines, hunks[1])
         IN <<after>> \o HunkSteps(after, Tail(hunks))

ApplyHunks(original_lines, hunks) ==
    IF hunks = <<>> THEN original_lines
    ELSE HunkSteps(original_lines, hunks)[Len(hunks)]

\* ------------------------------------------------------------ new files
\* The inner loop over one hunk's lines when a new file is built.
RECURSIVE CollectNew(_, _)
CollectNew(new_content, hunk_lines) ==
    IF hunk_lines = <<>> THEN new_content
    ELSE LET hunk_line == hunk_lines[1]
             n == Len(new_content)
             step ==
                IF StartsWith(hunk_line, <<"+">>)
                THEN Append(new_content, DropFirst(hunk_line, 1))
                ELSE IF StartsWith(hunk_line, <<"\\">>)
                        /\ Contains(hunk_line, NoNewlineText)
                        /\ new_content # <<>>
                        /\ EndsWith(new_content[n], <<NL>>)
                THEN [new_content EXCEPT ![n] = SubSeq(@, 1, Len(@) - 1)]
                ELSE new_content
         IN CollectNew(step, Tail(hunk_lines))

RECURSIVE NewContent(_, _)
NewContent(new_content, hunks) ==
    IF hunks = <<>> THEN new_content
    ELSE NewContent(CollectNew(new_content, hunks[1].lines), Tail(hunks))

\* What is written to a new file: the joined lines, and a final "\n" when
\* the last line does not end with one.
NewFileText(hunks) ==
    LET new_content == NewContent(<<>>, hunks)
    IN JoinNL(new_content)
       \o (IF new_content # <<>> /\ ~EndsWith(new_content[Len(new_content)], <<NL>>)
           THEN <<NL>> ELSE <<>>)

\* ------------------------------------------------------------ file tree
\* A directory tree: a function from the relative paths of its files to
\* their contents.  The empty relative path names the directory itself.
EmptyTree == <<>>

Exists(tree, path) == path = <<>> \/ path \in DOMAIN tree
IsDirectory(path) == path = <<>>

\* open(path, 'w') followed by the writes: the file holds exactly content.
TreeWrite(tree, path, content) ==
    [p \in (DOMAIN tree) \cup {path} |-> IF p = path THEN content ELSE tree[p]]

\* ------------------------------------------------------- the manual engine
EngineStart(tree) ==
    [ok |-> TRUE, tree |-> tree, report |-> <<>>, writes |-> <<>>, hunk_log |-> <<>>]

\* The log entries of the hunk loop over one file.
HunkLog(path, original_lines, hunks) ==
    LET steps == HunkSteps(original_lines, hunks)
    IN [n \in 1..Len(hunks) |->
          [path |-> path, hunk |-> hunks[n],
           before |-> IF n = 1 THEN original_lines ELSE steps[n - 1],
           after |-> steps[n]]]

\* ApplyFile without the test that the target exists: opening a missing
\* file for reading raises FileNotFoundError.
ApplyFileNoExistsCheck(acc, path, file_info) ==
    IF file_info.is_new_file THEN
        IF file_info.is_binary
        THEN [acc EXCEPT !.report = Append(@, <<path, "SkippedBinary">>)]
        ELSE IF IsDirectory(path)
        THEN \* open() of a directory raises IsADirectoryError
             [acc EXCEPT !.ok = FALSE]
        ELSE [acc EXCEPT !.tree = TreeWrite(@, path, NewFileText(file_info.hunks)),
                         !.writes = Append(@, path),
                         !.report = Append(@, <<path, "Created">>)]
    ELSE IF ~Exists(acc.tree, path)
    THEN [acc EXCEPT !.ok = FALSE]
    ELSE IF IsDirectory(path)
    THEN [acc EXCEPT !.ok = FALSE]
    ELSE IF Undecodable(acc.tree[path])
    THEN \* readlines() raises UnicodeDecodeError
         [acc EXCEPT !.ok = FALSE]
    ELSE LET original_lines == ReadLines(acc.tree[path])
             modified_lines == ApplyHunks(original_lines, file_info.hunks)
         IN [acc EXCEPT !.tree = TreeWrite(@, path, WriteLines(modified_lines)),
                        !.writes = Append(@, path),
                        !.report = Append(@, <<path, "Modified">>),
                        !.hunk_log = @ \o HunkLog(path, original_lines, file_info.hunks)]

\* One iteration of "for file_path, file_info in file_changes.items()".
\* ok = FALSE: an exception left the loop (caught at the except clause).
ApplyFile(acc, path, file_info) ==
    IF file_info.is_new_file THEN
        IF file_info.is_binary
        THEN [acc EXCEPT !.report = Append(@, <<path, "SkippedBinary">>)]
        ELSE IF IsDirectory(path)
        THEN \* open() of a directory raises IsADirectoryError
             [acc EXCEPT !.ok = FALSE]
        ELSE [acc EXCEPT !.tree = TreeWrite(@, path, NewFileText(file_info.hunks)),
                         !.writes = Append(@, path),
                         !.report = Append(@, <<path, "Created">>)]
    ELSE IF ~Exists(acc.tree, path)
    THEN [acc EXCEPT !.report = Append(@, <<path, "NotFound">>)]
    ELSE IF IsDirectory(path)
    THEN [acc EXCEPT !.ok = FALSE]
    ELSE IF Undecodable(acc.tree[path])
    THEN \* readlines() raises UnicodeDecodeError
         [acc EXCEPT !.ok = FALSE]
    ELSE LET original_lines == ReadLines(acc.tree[path])
             modified_lines == ApplyHunks(original_lines, file_info.hunks)
         IN [acc EXCEPT !.tree = TreeWrite(@, path, WriteLines(modified_lines)),
                        !.writes = Append(@, path),
                        !.report = Append(@, <<path, "Modified">>),
                        !.hunk_log = @ \o HunkLog(path, original_lines, file_info.hunks)]

RECURSIVE ApplyFiles(_, _, _)
ApplyFiles(acc, order, info) ==
    IF order = <<>> \/ ~acc.ok THEN acc
    ELSE ApplyFiles(ApplyFile(acc, order[1], info[order[1]]), Tail(order), info)

\* ApplyPatchManually applying the file changes read so far when the scan of
\* the text fails, as an engine that applies each section as it reads it.
ApplyPatchManuallyEager(patch, tree) ==
    IF \E k \in 1..Len(patch) : Undecodable(patch[k])
    THEN [success |-> FALSE, parsed |-> FALSE, file_changes |-> ParserInit.file_changes]
            @@ EngineStart(tree)
    ELSE LET parsed == Parse(patch)
             r == ApplyFiles(EngineStart(tree), parsed.file_changes.order,
                             parsed.file_changes.info)
         IN [success |-> parsed.ok /\ r.ok, parsed |-> parsed.ok,
             file_changes |-> parsed.file_changes] @@ r

\* _apply_patch_manually(patch_path, target_dir): the return value (success),
\* the tree it leaves, what it printed per file (report), the paths it
\* opened for writing (writes), the parsed file_changes, whether the scan of
\* the text reached its end (parsed) and a log of the hunk loop.
ApplyPatchManually(patch, tree) ==
    IF \E k \in 1..Len(patch) : Undecodable(patch[k])
    THEN [success |-> FALSE, parsed |-> FALSE, file_changes |-> ParserInit.file_changes]
            @@ EngineStart(tree)
    ELSE LET parsed == Parse(patch) IN
         IF ~parsed.ok
         THEN [success |-> FALSE, parsed |-> FALSE, file_changes |-> parsed.file_changes]
                 @@ EngineStart(tree)
         ELSE LET r == ApplyFiles(EngineStart(tree), parsed.file_changes.order,
                                  parsed.file_changes.info)
              IN [success |-> r.ok, parsed |-> TRUE, file_changes |-> parsed.file_changes] @@ r

\* ------------------------------------------------------------------ state
VARIABLES
    pc,         \* where apply_patches stands
    i,          \* the loop variable of "for i in range(1, 5)"
    patches,    \* patches/implementation_<i>.patch: whether it exists, its lines
    original,   \* the tree under dirs['original']
    impl,       \* implementations/impl_<i>: whether it exists, its files
    state,      \* the escalation state of the patch being processed
    committed,  \* whether "Apply impl_<i>" was committed for that patch
    implementations_applied,
    calls,      \* the tiers and the staging commands run for that patch, with exit codes
    manual      \* what _apply_patch_manually did for that patch

vars == <<pc, i, patches, original, impl, state, committed,
          implementations_applied, calls, manual>>

\* Exit codes of an external command: zero and nonzero.
RC == {0, 1}

NoPatch == [exists |-> FALSE, text |-> <<>>]
PatchFile(text) == [exists |-> TRUE, text |-> text]
NoDir == [exists |-> FALSE, files |-> EmptyTree]
Dir(tree) == [exists |-> TRUE, files |-> tree]

NotRun ==
    [ran |-> FALSE, success |-> FALSE, parsed |-> FALSE, before |-> EmptyTree,
     outside |-> {},
     file_changes |-> ParserInit.file_changes,
     report |-> <<>>, writes |-> <<>>, hunk_log |-> <<>>]

Applied == {"StrictApplied", "LenientApplied", "ManuallyApplied"}

\* ---------------------------------------------------------- apply_patches
\* "continue", or the end of the loop body: on to the next patch.
NextPatch == i' = i + 1 /\ pc' = "loop"

Call(cmd, rc) == calls' = Append(calls, <<cmd, rc>>)

\* The loop is over: the summary line is printed.
Finish ==
    /\ pc = "loop" /\ i > NumPatches
    /\ pc' = "done"
    /\ UNCHANGED <<i, patches, original, impl, state, committed,
                   implementations_applied, calls, manual>>

\* patch_path.exists() is false.
PatchMissing ==
    /\ pc = "loop" /\ i <= NumPatches /\ ~patches[i].exists
    /\ i' = i + 1
    /\ UNCHANGED <<pc, patches, original, impl, state, committed,
                   implementations_applied, calls, manual>>

\* patch_path.exists() is true: the patch is processed.
BeginPatch ==
    /\ pc = "loop" /\ i <= NumPatches /\ patches[i].exists
    /\ pc' = "copy"
    /\ state' = "NotAttempted" /\ committed' = FALSE
    /\ calls' = <<>> /\ manual' = NotRun
    /\ UNCHANGED <<i, patches, original, impl, implementations_applied>>

\* rmtree of an existing impl_<i>, then copytree of the original; either may
\* raise, which leaves apply_patches.
CopyTree ==
    /\ pc = "copy"
    /\ \E ok \in BOOLEAN :
          IF ok
          THEN impl' = [impl EXCEPT ![i] = Dir(original)] /\ pc' = "git_init"
          ELSE impl' = [impl EXCEPT ![i] = NoDir] /\ pc' = "raised"
    /\ UNCHANGED <<i, patches, original, state, committed,
                   implementations_applied, calls, manual>>

\* An external command run with check=True outside the try block: a nonzero
\* exit raises CalledProcessError, which leaves apply_patches.
Checked(at, then) ==
    /\ pc = at
    /\ \E rc \in RC : pc' = IF rc = 0 THEN then ELSE "raised"
    /\ UNCHANGED <<i, patches, original, impl, state, committed,
                   implementations_applied, calls, manual>>

GitInit == Checked("git_init", "git_add")
GitAdd == Checked("git_add", "diff_cached")
CommitInitial == Checked("commit_initial", "checkout")
Checkout == Checked("checkout", "strict")

\* git diff --cached --quiet: exit 0 means nothing is staged.
DiffCached ==
    /\ pc = "diff_cached"
    /\ \E rc \in RC : pc' = IF rc # 0 THEN "commit_initial" ELSE "checkout"
    /\ UNCHANGED <<i, patches, original, impl, state, committed,
                   implementations_applied, calls, manual>>

\* StrictApply with the lenient tier skipped on failure.
StrictApplySkipsLenient ==
    /\ pc = "strict"
    /\ \E rc \in RC :
          /\ Call("strict", rc)
          /\ IF rc # 0
             THEN pc' = "manual" /\ state' = state
             ELSE pc' = "stage" /\ state' = "StrictApplied"
    /\ UNCHANGED <<i, patches, original, impl, committed,
                   implementations_applied, manual>>

\* git apply --whitespace=fix
StrictApply ==
    /\ pc = "strict"
    /\ \E rc \in RC :
          /\ Call("strict", rc)
          /\ IF rc # 0
             THEN pc' = "lenient" /\ state' = state
             ELSE pc' = "stage" /\ state' = "StrictApplied"
    /\ UNCHANGED <<i, patches, original, impl, committed,
                   implementations_applied, manual>>

\* git apply --ignore-whitespace
LenientApply ==
    /\ pc = "lenient"
    /\ \E rc \in RC :
          /\ Call("lenient", rc)
          /\ IF rc # 0
             THEN pc' = "manual" /\ state' = state
             ELSE pc' = "stage" /\ state' = "LenientApplied"
    /\ UNCHANGED <<i, patches, original, impl, committed,
                   implementations_applied, manual>>

\* A git apply whose process never exits: subprocess.run is given no
\* timeout and waits for its child for ever.
ApplyNeverReturns ==
    /\ pc \in {"strict", "lenient"}
    /\ pc' = "blocked"
    /\ UNCHANGED <<i, patches, original, impl, state, committed,
                   implementations_applied, calls, manual>>

\* The directories of the run relative to impl_<k>: the original tree lies
\* at ../../original, the directory of another patch at ../impl_<j>.
OriginalPrefix == <<".", ".", "/", ".", ".", "/", "o", "r", "i", "g", "i", "n", "a", "l", "/">>
SiblingPrefix(j) ==
    <<".", ".", "/", "i", "m", "p", "l", "_">> \o <<Digits[j + 1]>> \o <<"/">>

\* The files of a tree as they are named through the prefix, and back.
Mount(prefix, tree) ==
    [q \in {prefix \o p : p \in DOMAIN tree} |-> tree[DropFirst(q, Len(prefix))]]
Under(prefix, view) ==
    [p \in {DropFirst(q, Len(prefix)) : q \in {x \in DOMAIN view : StartsWith(x, prefix)}}
        |-> view[prefix \o p]]

\* The other impl directories that exist while patch k is processed.
Siblings(k) == {j \in 1..NumPatches : j # k /\ impl[j].exists}

RECURSIVE MountSiblings(_, _)
MountSiblings(k, j) ==
    IF j > NumPatches THEN EmptyTree
    ELSE (IF j \in Siblings(k) THEN Mount(SiblingPrefix(j), impl[j].files) ELSE EmptyTree)
         @@ MountSiblings(k, j + 1)

\* The files that paths taken relative to impl_<k> can name: those of
\* impl_<k>, of the original tree and of the other impl directories.
FsView(k) == impl[k].files @@ Mount(OriginalPrefix, original) @@ MountSiblings(k, 1)

\* The files of impl_<k> itself in such a view.
Own(k, view) ==
    [p \in {x \in DOMAIN view :
                /\ ~StartsWith(x, OriginalPrefix)
                /\ \A j \in Siblings(k) : ~StartsWith(x, SiblingPrefix(j))}
        |-> view[p]]

\* The impl directories after the engine, run for patch k, left the view.
ImplAfter(k, view) ==
    [j \in 1..NumPatches |->
        IF j = k THEN Dir(Own(k, view))
        ELSE IF j \in Siblings(k) THEN Dir(Under(SiblingPrefix(j), view))
        ELSE impl[j]]

\* ManualApply without the continue after a failure of the engine: the
\* controller goes on to staging.
ManualApplyNoContinue ==
    /\ pc = "manual"
    /\ \E r \in {ApplyPatchManually(patches[i].text, FsView(i))} :
          /\ manual' = [ran |-> TRUE, success |-> r.success, parsed |-> r.parsed,
                        before |-> impl[i].files,
                        outside |-> DOMAIN FsView(i) \ DOMAIN impl[i].files,
                        file_changes |-> r.file_changes, report |-> r.report,
                        writes |-> r.writes, hunk_log |-> r.hunk_log]
          /\ impl' = ImplAfter(i, r.tree)
          /\ original' = Under(OriginalPrefix, r.tree)
          /\ Call("manual", IF r.success THEN 0 ELSE 1)
          /\ IF r.success
             THEN pc' = "stage" /\ state' = "ManuallyApplied" /\ i' = i
             ELSE state' = "Failed" /\ pc' = "stage" /\ i' = i
    /\ UNCHANGED <<patches, committed, implementations_applied>>

\* success = self._apply_patch_manually(absolute_patch_path, impl_dir)
ManualApply ==
    /\ pc = "manual"
    /\ \E r \in {ApplyPatchManually(patches[i].text, FsView(i))} :
          /\ manual' = [ran |-> TRUE, success |-> r.success, parsed |-> r.parsed,
                        before |-> impl[i].files,
                        outside |-> DOMAIN FsView(i) \ DOMAIN impl[i].files,
                        file_changes |-> r.file_changes, report |-> r.report,
                        writes |-> r.writes, hunk_log |-> r.hunk_log]
          /\ impl' = ImplAfter(i, r.tree)
          /\ original' = Under(OriginalPrefix, r.tree)
          /\ Call("manual", IF r.success THEN 0 ELSE 1)
          /\ IF r.success
             THEN pc' = "stage" /\ state' = "ManuallyApplied" /\ i' = i
             ELSE state' = "Failed" /\ NextPatch
    /\ UNCHANGED <<patches, committed, implementations_applied>>

\* git add . (check=True inside the try block: a nonzero exit is caught and
\* the loop goes on)
Stage ==
    /\ pc = "stage"
    /\ \E rc \in RC :
          /\ Call("stage", rc)
          /\ IF rc = 0 THEN pc' = "check_staged" /\ i' = i ELSE NextPatch
    /\ UNCHANGED <<patches, original, impl, state, committed,
                   implementations_applied, manual>>

\* CheckStaged with the test of the exit code inverted.
CheckStagedInverted ==
    /\ pc = "check_staged"
    /\ \E rc \in RC :
          /\ Call("staged", rc)
          /\ IF rc = 0 THEN pc' = "commit" /\ i' = i ELSE NextPatch
    /\ UNCHANGED <<patches, original, impl, state, committed,
                   implementations_applied, manual>>

\* git diff --cached --quiet after the patch: exit 0 means no changes to commit.
CheckStaged ==
    /\ pc = "check_staged"
    /\ \E rc \in RC :
          /\ Call("staged", rc)
          /\ IF rc # 0 THEN pc' = "commit" /\ i' = i ELSE NextPatch
    /\ UNCHANGED <<patches, original, impl, state, committed,
                   implementations_applied, manual>>

\* git commit -m "Apply impl_<i>" (check=True inside the try block)
Commit ==
    /\ pc = "commit"
    /\ \E rc \in RC :
          /\ Call("apply_commit", rc)
          /\ IF rc = 0
             THEN /\ committed' = TRUE
                  /\ implementations_applied' = implementations_applied + 1
             ELSE UNCHANGED <<committed, implementations_applied>>
          /\ NextPatch
    /\ UNCHANGED <<patches, original, impl, state, manual>>

\* The steps of apply_patches around the external commands.
ControlSteps ==
    \/ Finish \/ PatchMissing \/ BeginPatch \/ CopyTree
    \/ GitInit \/ GitAdd \/ DiffCached \/ CommitInitial \/ Checkout
    \/ StrictApply \/ LenientApply \/ ApplyNeverReturns
    \/ Stage \/ CheckStaged \/ Commit

Next == ControlSteps \/ ManualApply

\* ----------------------------------------------------------------- inputs
\* The patch files and trees the runs start from, written in the dialect
\* the parser's comments name: "diff --git a/path b/path" and
\* "@@ -old_start,old_count +new_start,new_count @@".
PathF == <<"f">>
PathG == <<"g">>
NewTxt == <<"n","e","w",".","t","x","t">>
TextChars == {"a", "b"}

Num(n) == IF n < 10 THEN <<Digits[n + 1]>>
          ELSE <<Digits[(n \div 10) + 1], Digits[(n % 10) + 1]>>

DiffLine(path) == DiffGitPrefix \o <<" ","a","/">> \o path \o <<" ","b","/">> \o path
NewFileLine == NewFilePrefix \o <<" ","1","0","0","6","4","4">>
IndexLine == IndexPrefix \o <<" ","1",".",".","2"," ","1","0","0","6","4","4">>
BinaryIndexLine == IndexPrefix \o <<" ","1",".",".",".","2">>
BinaryFilesLine == BinaryFiles \o <<" ","d","i","f","f","e","r">>
OldFileLine(path) == <<"-","-","-"," ","a","/">> \o path
NewFileNameLine(path) == <<"+","+","+"," ","b","/">> \o path
NoNewlineLine == <<"\\"," ">> \o NoNewlineText

CountMarked(body, markers) == Cardinality({k \in 1..Len(body) : body[k][1] \in markers})

HunkHeader(old_start, body) ==
    <<"@","@"," ","-">> \o Num(old_start) \o <<",">> \o Num(CountMarked(body, {" ", "-"}))
    \o <<" ","+">> \o Num(old_start) \o <<",">> \o Num(CountMarked(body, {" ", "+"}))
    \o <<" ","@","@">>

\* A hunk as written in a patch: its header, then its body lines.
HunkText(h) == <<HunkHeader(h.old_start, h.body)>> \o h.body

RECURSIVE HunksText(_)
HunksText(hs) == IF hs = <<>> THEN <<>> ELSE HunkText(hs[1]) \o HunksText(Tail(hs))

\* One file section of a patch.
Section(path, is_new, is_bin, hs) ==
    <<DiffLine(path)>>
    \o (IF is_new THEN <<NewFileLine>> ELSE <<>>)
    \o (IF is_bin THEN <<BinaryIndexLine, BinaryFilesLine>> ELSE <<IndexLine>>)
    \o <<OldFileLine(path), NewFileNameLine(path)>>
    \o HunksText(hs)

\* The text ends with "\n": split('\n') yields a last, empty line.
Document(sections) == sections \o << <<>> >>

SeqsUpTo(S, lo, hi) == UNION {[1..n -> S] : n \in lo..hi}

BodyLines == {<<m, c>> : m \in {" ", "+", "-"}, c \in TextChars}
Bodies == SeqsUpTo(BodyLines, 1, MaxHunkLines)
Hunks == {[old_start |-> n, body |-> b] : n \in 0..MaxOldStart, b \in Bodies}
\* Hunks that change one line.
ShortHunks == {[old_start |-> n, body |-> <<l>>] : n \in 1..2,
                                                   l \in {x \in BodyLines : x[1] # " "}}

\* The contents of a text file of at most MaxFileLines lines; the last line
\* may lack its terminator.
FileLineSeqs == SeqsUpTo({<<c, NL>> : c \in TextChars}, 0, MaxFileLines)
FileContents ==
    {WriteLines(ls) : ls \in FileLineSeqs}
    \cup {SubSeq(WriteLines(ls), 1, 2 * Len(ls) - 1) : ls \in FileLineSeqs \ {<<>>}}

TreeOf(path, content) == [p \in {path} |-> content]

\* Patches of one section modifying f, over every small file f.
ModifyPatches ==
    {Document(Section(PathF, FALSE, FALSE, <<h>>)) : h \in Hunks}
    \cup {Document(Section(PathF, FALSE, FALSE, <<h1, h2>>)) : h1 \in ShortHunks, h2 \in ShortHunks}
ModifyInputs ==
    {[tree |-> TreeOf(PathF, c), patch |-> p] : c \in FileContents, p \in ModifyPatches}

\* Sections that create a file, flag a binary file or name a missing file.
AddedBodies == SeqsUpTo({<<"+", c>> : c \in TextChars}, 0, MaxHunkLines)
NewFileHunks ==
    {IF b = <<>> THEN <<>> ELSE <<[old_start |-> 0, body |-> b \o tail]>> :
        b \in AddedBodies, tail \in {<<>>, <<NoNewlineLine>>}}
OtherSections ==
    {Section(path, TRUE, is_bin, hs) :
        path \in {PathF, PathG}, is_bin \in BOOLEAN, hs \in NewFileHunks}
    \cup {Section(path, FALSE, is_bin, <<[old_start |-> 1, body |-> <<l>>]>>) :
            path \in {PathF, PathG}, is_bin \in BOOLEAN, l \in {<<"+","b">>, <<"-","a">>}}
HelloWorld ==
    Section(NewTxt, TRUE, FALSE,
            <<[old_start |-> 0,
               body |-> << <<"+","h","e","l","l","o">>, <<"+","w","o","r","l","d">>,
                           NoNewlineLine >>]>>)
\* Texts the scan reads no file change from, or stops at.
OddPatches ==
    { << <<>> >>,
      <<DiffLine(PathF), <<"@","@"," ","-","x"," ","+","1"," ","@","@">>, <<"+","a">>, <<>> >>,
      <<DiffLine(PathF), <<BadByte>>, <<>> >>,
      <<DiffLine(PathF), <<"@","@">>, <<"+","b">>, <<>> >>,
      <<DiffLine(PathF), <<"@","@"," ","-","1">>, <<"+","b">>, <<>> >>,
      <<DiffGitPrefix \o <<" ","a","/"," ","b","/">>, <<>> >>,
      Document(HelloWorld) }
OtherPatches ==
    {Document(s) : s \in OtherSections}
    \cup {Document(s1 \o s2) : s1 \in OtherSections, s2 \in
             {Section(PathF, FALSE, FALSE, <<[old_start |-> 1, body |-> << <<"-","a">>, <<"+","b">> >>]>>),
              Section(PathG, FALSE, FALSE, <<[old_start |-> 1, body |-> << <<"+","b">> >>]>>)}}
    \cup OddPatches
OtherTrees ==
    {EmptyTree, TreeOf(PathF, <<"a", NL>>), TreeOf(PathF, <<BadByte, NL>>)}
OtherInputs == {[tree |-> t, patch |-> p] : t \in OtherTrees, p \in OtherPatches}

\* A file of the lines a, b, c and a hunk that removes b and adds x, y.
AbcTree == TreeOf(PathF, <<"a", NL, "b", NL, "c", NL>>)
AbcPatch ==
    Document(Section(PathF, FALSE, FALSE,
        <<[old_start |-> 2, body |-> << <<"-","b">>, <<"+","x">>, <<"+","y">> >>]>>))
\* Two sections for the same file: the first replaces a by b, the second
\* adds c after it.
TwiceF ==
    Document(Section(PathF, FALSE, FALSE, <<[old_start |-> 1, body |-> << <<"-","a">>, <<"+","b">> >>]>>)
             \o Section(PathF, FALSE, FALSE, <<[old_start |-> 2, body |-> << <<"+","c">> >>]>>))
\* Sections that create a file through a path with a ".." component, and
\* under the directory .git.
PathUp == <<".", ".", "/", "o">>
PathGit == <<".", "g", "i", "t", "/", "c">>
CreateAt(path) ==
    Document(Section(path, TRUE, FALSE, <<[old_start |-> 0, body |-> << <<"+","a">> >>]>>))
\* A section that replaces the line a of f by b, with the no-newline marker
\* after the added line.
NoNewlineModify ==
    Document(Section(PathF, FALSE, FALSE,
        <<[old_start |-> 1, body |-> << <<"-","a">>, <<"+","b">>, NoNewlineLine >>]>>))
\* Two hunks for f, then a section with a hunk for g.
TwoHunksTwoFiles ==
    Document(Section(PathF, FALSE, FALSE,
                     <<[old_start |-> 1, body |-> << <<"-","a">>, <<"+","b">> >>],
                       [old_start |-> 2, body |-> << <<"+","a">> >>]>>)
             \o Section(PathG, FALSE, FALSE, <<[old_start |-> 1, body |-> << <<"+","b">> >>]>>))
\* A section for a file whose name holds a space.
MyFile == <<"m", "y", " ", "f", "i", "l", "e">>
SpacedPatch ==
    Document(Section(MyFile, FALSE, FALSE,
        <<[old_start |-> 1, body |-> << <<"-","a">>, <<"+","b">> >>]>>))
\* The file a, b, a and a hunk written for its third line, with a context
\* line the file does not hold.
AbaTree == TreeOf(PathF, <<"a", NL, "b", NL, "a", NL>>)
LaterOccurrence ==
    Document(Section(PathF, FALSE, FALSE,
        <<[old_start |-> 3, body |-> << <<" ","c">>, <<"-","a">>, <<"+","x">> >>]>>))
\* A section that replaces the line a of f, then a section for g whose hunk
\* header has a start that is not a number.
ParseFailsLate ==
    Document(Section(PathF, FALSE, FALSE,
                     <<[old_start |-> 1, body |-> << <<"-","a">>, <<"+","b">> >>]>>)
             \o <<DiffLine(PathG), <<"@","@"," ","-","x"," ","+","1"," ","@","@">>, <<"+","b">> >>)
\* A section that names the file f of the original tree from impl_<i>.
IntoOriginal ==
    Document(Section(OriginalPrefix \o PathF, FALSE, FALSE,
        <<[old_start |-> 1, body |-> << <<"-","a">>, <<"+","b">> >>]>>))
\* A section that names the file f of impl_1 from another impl directory.
IntoSibling ==
    Document(Section(SiblingPrefix(1) \o PathF, FALSE, FALSE,
        <<[old_start |-> 1, body |-> << <<"-","a">>, <<"+","b">> >>]>>))
ScenarioInputs ==
    {[tree |-> AbcTree, patch |-> AbcPatch],
     [tree |-> TreeOf(PathF, <<"a", NL>>), patch |-> IntoOriginal],
     [tree |-> TreeOf(PathF, <<"a", NL>>), patch |-> ParseFailsLate],
     [tree |-> AbaTree, patch |-> LaterOccurrence],
     [tree |-> TreeOf(MyFile, <<"a", NL>>), patch |-> SpacedPatch],
     [tree |-> [q \in {PathF, PathG} |-> <<"a", NL>>], patch |-> TwoHunksTwoFiles],
     [tree |-> TreeOf(PathF, <<"a", NL>>), patch |-> TwiceF],
     [tree |-> TreeOf(PathF, <<"a", NL>>), patch |-> NoNewlineModify],
     [tree |-> TreeOf(PathF, <<"a", NL>>), patch |-> CreateAt(PathUp)],
     [tree |-> TreeOf(PathF, <<"a", NL>>), patch |-> CreateAt(PathGit)]}

\* One patch file, the last of the range, over a wide family of texts.
InitSingle ==
    \E inp \in ModifyInputs \cup OtherInputs \cup ScenarioInputs :
        /\ original = inp.tree
        /\ patches = [k \in 1..NumPatches |-> IF k = NumPatches THEN PatchFile(inp.patch) ELSE NoPatch]
        /\ impl = [k \in 1..NumPatches |-> NoDir]

\* Any subset of the four patch files, over one text; impl_1 may be left
\* over from an earlier run.
BatchPatch ==
    Document(Section(PathF, FALSE, FALSE, <<[old_start |-> 1, body |-> << <<"-","a">>, <<"+","b">> >>]>>))
InitBatch ==
    /\ original = TreeOf(PathF, <<"a", NL>>)
    /\ patches \in [1..NumPatches -> {NoPatch, PatchFile(BatchPatch)}]
    /\ \E stale \in {NoDir, Dir(TreeOf(PathG, <<"b", NL>>))} :
          impl = [k \in 1..NumPatches |-> IF k = 1 THEN stale ELSE NoDir]

\* Two patch files, one of which names a file outside its impl directory.
InitCross ==
    /\ original = TreeOf(PathF, <<"a", NL>>)
    /\ \E pair \in {<<IntoOriginal, BatchPatch>>, <<BatchPatch, IntoSibling>>} :
          patches = [k \in 1..NumPatches |->
                        IF k <= 2 THEN PatchFile(pair[k]) ELSE NoPatch]
    /\ impl = [k \in 1..NumPatches |-> NoDir]

Init ==
    /\ pc = "loop" /\ i = 1
    /\ state = "NotAttempted" /\ committed = FALSE
    /\ implementations_applied = 0
    /\ calls = <<>> /\ manual = NotRun
    /\ (InitSingle \/ InitBatch \/ InitCross)

Spec == Init /\ [][Next]_vars

\* The runs over the batches of patch files, with the program taking its
\* next step whenever it has one: apply_patches is sequential code, and a
\* step is left untaken only while an external command has not returned.
\* The manual engine is made of loops over the lines of the text, the file
\* changes and their hunks, so it returns: the run does not stay at it.
FairInit == Init /\ InitBatch
FairSpec ==
    FairInit /\ [][Next]_vars /\ WF_vars(ControlSteps) /\ []<>(pc # "manual")

\* ----------------------------------------------------------------- claims
Range(f) == {f[k] : k \in DOMAIN f}
IsTier(c) == c[1] \in {"strict", "lenient", "manual"}
TierCalls == SelectSeq(calls, IsTier)

\* C1: for every patch the tiers run in the order strict, lenient, manual;
\* the lenient apply runs only after the strict apply exited nonzero, the
\* manual engine only after both exited nonzero, and nothing runs after a
\* tier that succeeded.
C1_TierOrder ==
    LET t == TierCalls IN
    /\ Len(t) <= 3
    /\ \A k \in 1..Len(t) : t[k][1] = <<"strict", "lenient", "manual">>[k]
    /\ \A k \in 1..(Len(t) - 1) : t[k][2] # 0
    /\ manual.ran <=> (Len(t) = 3)
    /\ pc \in {"lenient", "manual", "stage", "check_staged", "commit"} => Len(t) >= 1
    /\ state = "StrictApplied" <=> (t = << <<"strict", 0>> >>)
    /\ state = "LenientApplied" <=> (t = << <<"strict", 1>>, <<"lenient", 0>> >>)

\* The manual engine ran, after both external applies failed.
C1_Witness ==
    /\ manual.ran /\ state = "ManuallyApplied"
    /\ TierCalls = << <<"strict", 1>>, <<"lenient", 1>>, <<"manual", 0>> >>

Changed == {r \in Range(manual.report) : r[2] \in {"Created", "Modified"}}

\* C2: once the manual tier ran, the patch is ManuallyApplied if at least
\* one file was Created or Modified, and Failed if no file was.
C2_ManualOutcome ==
    manual.ran =>
        IF Changed # {} THEN state = "ManuallyApplied" ELSE state = "Failed"

MovedOn == pc \in {"loop", "done"}

\* C3 as stated: a patch that ended StrictApplied, LenientApplied or
\* ManuallyApplied has its change set committed before the next patch.
C3_CommittedOnSuccess ==
    (MovedOn /\ state \in Applied) => committed

\* C3, amended: such a patch has been staged before the next patch, and it
\* is committed exactly when staging exited zero, the test of the staged
\* changes exited nonzero and the commit exited zero.
C3_CommittedWhenStaged ==
    (MovedOn /\ state \in Applied) =>
        /\ \E rc \in RC : <<"stage", rc>> \in Range(calls)
        /\ committed <=> /\ <<"stage", 0>> \in Range(calls)
                         /\ <<"staged", 1>> \in Range(calls)
                         /\ <<"apply_commit", 0>> \in Range(calls)
        /\ <<"staged", 0>> \in Range(calls) =>
              \A rc \in RC : <<"apply_commit", rc>> \notin Range(calls)

\* A manually applied patch was committed and the loop went on.
C3_Witness ==
    MovedOn /\ state = "ManuallyApplied" /\ committed /\ implementations_applied = 1

\* The manual engine returned True and the controller stands right after it:
\* impl[i] is the tree the engine left.
AfterManual == manual.ran /\ manual.success /\ pc = "stage"

\* The texts of a hunk's lines with one of the given markers, as file lines.
RECURSIVE SideLines(_, _)
SideLines(hunk_lines, markers) ==
    IF hunk_lines = <<>> THEN <<>>
    ELSE (IF hunk_lines[1] # <<>> /\ hunk_lines[1][1] \in markers
          THEN <<Tail(hunk_lines[1]) \o <<NL>> >> ELSE <<>>)
         \o SideLines(Tail(hunk_lines), markers)
OldSide(h) == SideLines(h.lines, {" ", "-"})
NewSide(h) == SideLines(h.lines, {" ", "+"})

\* The unified diff format: hunk h of a diff of A against B says that the
\* lines of A from old_start on are its old side (context and removed
\* lines), and that B holds its new side (context and added lines) in their
\* place; hunks come in the order of the file and do not overlap.
DiffStep(acc, h) ==
    LET pos == h.old_start + acc.delta
        old == OldSide(h)
        new == NewSide(h)
        fits == /\ Len(old) >= 1 /\ old # new
                /\ h.old_start >= acc.floor
                /\ pos >= 1 /\ pos + Len(old) - 1 <= Len(acc.lines)
                /\ SubSeq(acc.lines, pos, pos + Len(old) - 1) = old
                /\ \A k \in 1..Len(h.lines) : ~StartsWith(h.lines[k], <<"\\">>)
    IN IF acc.ok /\ fits
       THEN [ok |-> TRUE,
             lines |-> SubSeq(acc.lines, 1, pos - 1) \o new
                       \o SubSeq(acc.lines, pos + Len(old), Len(acc.lines)),
             delta |-> acc.delta + Len(new) - Len(old),
             floor |-> h.old_start + Len(old)]
       ELSE [acc EXCEPT !.ok = FALSE]

RECURSIVE DiffResult(_, _)
DiffResult(acc, hs) == IF hs = <<>> THEN acc ELSE DiffResult(DiffStep(acc, hs[1]), Tail(hs))

\* B, when the hunks hs are a unified diff of the lines A against some B.
DiffTarget(A, hs) == DiffResult([ok |-> TRUE, lines |-> A, delta |-> 0, floor |-> 1], hs)

\* The existing text files of the target tree the engine modified.
ModifiedPaths ==
    {p \in DOMAIN manual.file_changes.info :
        /\ p \in DOMAIN manual.before
        /\ <<p, "Modified">> \in Range(manual.report)
        /\ manual.file_changes.info[p].hunks # <<>>}

LogOf(p) == SelectSeq(manual.hunk_log, LAMBDA e : e.path = p)
NoMismatch(p) == \A k \in 1..Len(LogOf(p)) : HunkTakesEffect(LogOf(p)[k].before, LogOf(p)[k].hunk)

\* C4: round trip.  When the hunks of a file are a unified diff of its
\* lines A against B (context carried, old_start at the first line of the
\* hunk) and no hunk is mismatched, the engine turns A into exactly B.
C4_RoundTrip ==
    AfterManual =>
        \A p \in ModifiedPaths :
            LET A == ReadLines(manual.before[p])
                d == DiffTarget(A, manual.file_changes.info[p].hunks)
            IN (d.ok /\ NoMismatch(p)) => impl[i].files[p] = WriteLines(d.lines)

\* C5: idempotence.  Applying a patch again to a file it applied to leaves
\* the file as the first application left it.
C5_Idempotent ==
    AfterManual =>
        \A p \in ModifiedPaths :
            NoMismatch(p) =>
                ApplyPatchManually(patches[i].text, impl[i].files).tree[p] = impl[i].files[p]

\* C6: a file change flagged is_binary is never written, and it is reported
\* as skipped binary.
C6_BinarySkipped ==
    AfterManual =>
        \A p \in DOMAIN manual.file_changes.info :
            manual.file_changes.info[p].is_binary =>
                /\ p \notin Range(manual.writes)
                /\ <<p, "SkippedBinary">> \in Range(manual.report)

\* The texts of the added lines of a new file's hunks, in order.
RECURSIVE AddedTexts(_)
AddedTexts(hunks) ==
    IF hunks = <<>> THEN <<>>
    ELSE LET ls == hunks[1].lines
             plus == SelectSeq(ls, LAMBDA l : l # <<>> /\ l[1] = "+")
         IN [k \in 1..Len(plus) |-> Tail(plus[k])] \o AddedTexts(Tail(hunks))

\* The last added line of the section is followed by the no-newline marker.
EndsWithMarker(hunks) ==
    /\ hunks # <<>>
    /\ LET ls == SelectSeq(hunks[Len(hunks)].lines, LAMBDA l : l # <<>>)
       IN /\ Len(ls) >= 2
          /\ ls[Len(ls)] = NoNewlineLine
          /\ ls[Len(ls) - 1][1] = "+"

\* C7: a new file whose last added line is followed by the no-newline marker
\* holds the added lines joined by "\n", with no "\n" after the last one.
C7_NoFinalNewline ==
    AfterManual =>
        \A p \in DOMAIN manual.file_changes.info :
            LET info == manual.file_changes.info[p] IN
            (info.is_new_file /\ ~info.is_binary /\ EndsWithMarker(info.hunks))
                => impl[i].files[p] = JoinNL(AddedTexts(info.hunks))

\* A hunk whose removed block occurs nowhere in the working lines.
RemovedBlockMissing(e) ==
    /\ Removals(e.hunk) # <<>>
    /\ \A k \in 0..(Len(e.before) - Len(Removals(e.hunk))) :
          SubSeq(e.before, k + 1, k + Len(Removals(e.hunk))) # Removals(e.hunk)

\* C8: a hunk whose removed block occurs nowhere is signalled as a hunk
\* mismatch and leaves the lines unchanged; the other hunks of the file are
\* still applied in order and the file is written.
C8_MismatchSignalled ==
    manual.ran =>
        \A k \in 1..Len(manual.hunk_log) :
            LET e == manual.hunk_log[k] IN
            RemovedBlockMissing(e) =>
                /\ e.after = e.before
                /\ <<e.path, "HunkMismatch">> \in Range(manual.report)
                /\ Len(LogOf(e.path)) = Len(manual.file_changes.info[e.path].hunks)
                /\ e.path \in Range(manual.writes)

\* Every hunk of the file asks for a change: it adds or removes a line.
AllHunksChange(p) ==
    \A k \in 1..Len(LogOf(p)) : OldSide(LogOf(p)[k].hunk) # NewSide(LogOf(p)[k].hunk)

\* C9: an existing file none of whose hunks applied is reported as failed,
\* not as modified: a file reported as modified had a hunk applied.
C9_ModifiedMeansApplied ==
    manual.ran =>
        \A p \in ModifiedPaths :
            AllHunksChange(p) =>
                \E k \in 1..Len(LogOf(p)) :
                    HunkTakesEffect(LogOf(p)[k].before, LogOf(p)[k].hunk)

\* A hunk of added lines only, with old_start = N and 1 <= N <= length + 1.
PureInsertion(e) ==
    /\ OldSide(e.hunk) = <<>>
    /\ NewSide(e.hunk) # <<>>
    /\ \A k \in 1..Len(e.hunk.lines) : e.hunk.lines[k] = <<>> \/ e.hunk.lines[k][1] = "+"
    /\ 1 <= e.hunk.old_start /\ e.hunk.old_start <= Len(e.before) + 1

\* C10: such a hunk puts its added lines, in order, right before line N of
\* the working lines (at the end when N = length + 1) and keeps every line
\* that was there, in order.
C10_InsertBeforeLineN ==
    \A k \in 1..Len(manual.hunk_log) :
        LET e == manual.hunk_log[k]
            N == e.hunk.old_start
            added == NewSide(e.hunk)
        IN PureInsertion(e) =>
            /\ Len(e.after) = Len(e.before) + Len(added)
            /\ \A m \in 1..(N - 1) : e.after[m] = e.before[m]
            /\ \A m \in 1..Len(added) : e.after[N - 1 + m] = added[m]
            /\ \A m \in N..Len(e.before) : e.after[m + Len(added)] = e.before[m]

\* One file took an insertion at its end and then one before a line.
C10_Witness ==
    /\ AfterManual
    /\ \E k1, k2 \in 1..Len(manual.hunk_log) :
          LET e1 == manual.hunk_log[k1]
              e2 == manual.hunk_log[k2]
          IN /\ PureInsertion(e1) /\ Len(e1.before) >= 1
             /\ e1.hunk.old_start = Len(e1.before) + 1
             /\ PureInsertion(e2) /\ e2.hunk.old_start <= Len(e2.before)
             /\ impl[i].files[e2.path] = WriteLines(e2.after)

\* The removed and the added block of a hunk, as file lines.
RemovedBlock(h) == SideLines(h.lines, {"-"})
AddedBlock(h) == SideLines(h.lines, {"+"})

\* The block is the slice of ls that starts at the 0-based offset k.
OccursAt(ls, block, k) ==
    k + Len(block) <= Len(ls) /\ SubSeq(ls, k + 1, k + Len(block)) = block
Occurs(ls, block) == \E k \in 0..Len(ls) : OccursAt(ls, block, k)

\* C11: a hunk with removed and added lines whose removed block occurs in
\* the working lines replaces the slice at the lowest such position by the
\* added block and leaves every other line; the file a, b, c with b removed
\* and x, y added becomes a, x, y, c.
C11_ReplaceFirst ==
    /\ \A n \in 1..Len(manual.hunk_log) :
          LET e == manual.hunk_log[n]
              rem == RemovedBlock(e.hunk)
              add == AddedBlock(e.hunk)
          IN (rem # <<>> /\ add # <<>> /\ Occurs(e.before, rem)) =>
                \E k \in 0..Len(e.before) :
                    /\ OccursAt(e.before, rem, k)
                    /\ \A j \in 0..(k - 1) : ~OccursAt(e.before, rem, j)
                    /\ e.after = SubSeq(e.before, 1, k) \o add
                                 \o SubSeq(e.before, k + Len(rem) + 1, Len(e.before))
    /\ (AfterManual /\ manual.before = AbcTree /\ patches[i].text = AbcPatch) =>
          impl[i].files[PathF] = <<"a", NL, "x", NL, "y", NL, "c", NL>>

\* The engine applied the hunk of the scenario to the file a, b, c.
C11_Witness ==
    /\ AfterManual /\ manual.before = AbcTree /\ patches[i].text = AbcPatch
    /\ Len(manual.hunk_log) = 1
    /\ manual.hunk_log[1].after = << <<"a", NL>>, <<"x", NL>>, <<"y", NL>>, <<"c", NL>> >>

\* The file changes of the parsed patch that modify a file the tree the
\* engine started from does not hold, by their place in the order of
\* application.
MissingTargets ==
    {k \in 1..Len(manual.file_changes.order) :
        LET p == manual.file_changes.order[k] IN
        /\ ~manual.file_changes.info[p].is_new_file
        /\ p # <<>> /\ p \notin DOMAIN manual.before \cup manual.outside}

\* The engine came to the k-th file change: the text was scanned to its end
\* and no earlier file change raised.
CameTo(k) == manual.ran /\ manual.parsed /\ Len(manual.report) >= k - 1

\* C12: a file change that modifies a path absent from the tree fails as not
\* found without the file being created, and the engine goes on to the next
\* file change; when nothing raises, every file change of the patch is
\* processed.
C12_NotFoundOthersProceed ==
    /\ \A k \in MissingTargets :
          LET p == manual.file_changes.order[k] IN
          CameTo(k) =>
            /\ Len(manual.report) >= k
            /\ manual.report[k] = <<p, "NotFound">>
            /\ p \notin Range(manual.writes)
            /\ AfterManual => p \notin DOMAIN impl[i].files
            /\ k < Len(manual.file_changes.order) => CameTo(k + 1)
    /\ (manual.ran /\ manual.success) =>
          /\ Len(manual.report) = Len(manual.file_changes.order)
          /\ \A k \in 1..Len(manual.report) :
                manual.report[k][1] = manual.file_changes.order[k]

\* The first file change named a missing file and the second one was applied.
C12_Witness ==
    /\ AfterManual
    /\ Len(manual.report) = 2
    /\ 1 \in MissingTargets
    /\ manual.report[1][2] = "NotFound"
    /\ manual.report[2][2] = "Modified"
    /\ manual.report[2][1] \in Range(manual.writes)

\* The patch the record manual is about: the one being processed, or the
\* last one processed once the loop moved on.
ManualPatch ==
    IF pc \in {"loop", "done"}
    THEN CHOOSE k \in 1..NumPatches :
            /\ k < i /\ patches[k].exists
            /\ \A m \in (k + 1)..(i - 1) : m <= NumPatches => ~patches[m].exists
    ELSE i

\* A range field of a hunk header: the sign, then the start as decimal
\* digits, then nothing or a comma and the rest.
WellFormedRange(field, sign) ==
    /\ Len(field) >= 2 /\ field[1] = sign
    /\ LET start == BeforeComma(Tail(field))
       IN start # <<>> /\ \A k \in 1..Len(start) : IsDigit(start[k])

\* A line that starts with "@@" and lacks the two range fields, or whose
\* start field is not an integer.
MalformedHunkHeader(line) ==
    /\ StartsWith(line, <<"@", "@">>)
    /\ LET fields == SplitWS(line)
       IN \/ Len(fields) < 3
          \/ ~WellFormedRange(fields[2], "-")
          \/ ~WellFormedRange(fields[3], "+")

HasMalformedHeader(text) == \E k \in 1..Len(text) : MalformedHunkHeader(text[k])

\* C13: when the text of a patch holds a malformed hunk header, the engine
\* reports an error for the document (it returns False, its scan of the text
\* given up) instead of skipping the line.
C13_MalformedHeaderReported ==
    (manual.ran /\ HasMalformedHeader(patches[ManualPatch].text)) =>
        ~manual.parsed /\ ~manual.success

\* The file section of the text that starts at line k: up to the next file
\* header or the end.
SectionAt(text, k) ==
    LET later == {m \in (k + 1)..Len(text) : StartsWith(text[m], DiffGitPrefix)}
        end == IF later = {} THEN Len(text)
               ELSE (CHOOSE m \in later : \A n \in later : m <= n) - 1
    IN SubSeq(text, k, end)

\* The hunks of the sections for path p from line k on, section after
\* section in the order of the text, each section read on its own.
RECURSIVE HunksFor(_, _, _)
HunksFor(text, k, p) ==
    IF k > Len(text) THEN <<>>
    ELSE IF StartsWith(text[k], DiffGitPrefix)
    THEN LET fc == Parse(SectionAt(text, k)).file_changes
         IN (IF p \in DOMAIN fc.info THEN fc.info[p].hunks ELSE <<>>)
            \o HunksFor(text, k + 1, p)
    ELSE HunksFor(text, k + 1, p)

SectionsFor(text, p) ==
    {k \in 1..Len(text) :
        /\ StartsWith(text[k], DiffGitPrefix)
        /\ p \in DOMAIN Parse(SectionAt(text, k)).file_changes.info}

\* C14: the hunks of every section for a path are applied to the file, in
\* the order of the sections in the text; no section's hunks are discarded.
C14_DuplicateSectionsInSequence ==
    AfterManual =>
        \A p \in ModifiedPaths :
            LET hs == HunksFor(patches[i].text, 1, p) IN
            /\ manual.file_changes.info[p].hunks = hs
            /\ impl[i].files[p] = WriteLines(ApplyHunks(ReadLines(manual.before[p]), hs))

\* The same, for the texts in which no two sections name the same path.
SingleSectionsKept ==
    AfterManual =>
        \A p \in ModifiedPaths :
            LET hs == HunksFor(patches[i].text, 1, p) IN
            Cardinality(SectionsFor(patches[i].text, p)) <= 1 =>
                manual.file_changes.info[p].hunks = hs

\* The patch files after the one being processed.
LaterPatches == {k \in (i + 1)..NumPatches : patches[k].exists}

\* C15: no failing step is fatal to the batch.  apply_patches is never left
\* by an exception while a later patch file is still to be processed.
C15_NoStepFatal ==
    pc = "raised" => LaterPatches = {}

Terminal == Applied \cup {"Failed"}

\* C16: every patch eventually reaches a terminal state, also when a git
\* apply does not return on its own: once the strict apply is started, the
\* patch ends StrictApplied, LenientApplied, ManuallyApplied or Failed.
C16_EventuallyTerminal ==
    (pc = "strict") ~> (state \in Terminal)

\* The components of a path: its parts between the "/" characters.
RECURSIVE Components(_)
Components(path) ==
    IF \E k \in 1..Len(path) : path[k] = "/"
    THEN LET k == CHOOSE j \in 1..Len(path) :
                     path[j] = "/" /\ \A m \in 1..(j - 1) : path[m] # "/"
         IN <<SubSeq(path, 1, k - 1)>> \o Components(DropFirst(path, k))
    ELSE <<path>>

\* Walking the components from a directory at the given depth below the
\* target directory steps above the target directory.
RECURSIVE StepsAbove(_, _)
StepsAbove(comps, depth) ==
    IF comps = <<>> THEN FALSE
    ELSE IF comps[1] = <<".", ".">>
    THEN depth = 0 \/ StepsAbove(Tail(comps), depth - 1)
    ELSE IF comps[1] \in {<<>>, <<".">>}
    THEN StepsAbove(Tail(comps), depth)
    ELSE StepsAbove(Tail(comps), depth + 1)

\* The path, taken relative to the target directory, names a file outside
\* it (an absolute path replaces the target directory altogether).
OutsideTarget(path) ==
    StartsWith(path, <<"/">>) \/ StepsAbove(Components(path), 0)

\* The path names a file of the version-control metadata.
InMetadata(path) ==
    LET named == SelectSeq(Components(path), LAMBDA c : c \notin {<<>>, <<".">>})
    IN named # <<>> /\ named[1] = <<".", "g", "i", "t">>

\* C17: every path the manual engine creates or overwrites lies inside the
\* target directory and outside its .git directory.
C17_PathsStayInside ==
    manual.ran =>
        \A k \in 1..Len(manual.writes) :
            ~OutsideTarget(manual.writes[k]) /\ ~InMetadata(manual.writes[k])

\* The same for the paths outside the target directory alone, and for the
\* metadata alone.
NoWriteOutside ==
    manual.ran => \A k \in 1..Len(manual.writes) : ~OutsideTarget(manual.writes[k])
NoWriteInMetadata ==
    manual.ran => \A k \in 1..Len(manual.writes) : ~InMetadata(manual.writes[k])

\* C18: a hunk with removed and added lines whose removed block occurs
\* nowhere in the working lines is anchored on old_start: when the lines
\* from offset old_start - 1 on can take the place of the removed block,
\* they are overwritten by the added block.
C18_AnchoredFallback ==
    \A n \in 1..Len(manual.hunk_log) :
        LET e == manual.hunk_log[n]
            rem == RemovedBlock(e.hunk)
            add == AddedBlock(e.hunk)
            at == e.hunk.old_start - 1
        IN (/\ rem # <<>> /\ add # <<>> /\ ~Occurs(e.before, rem)
            /\ 0 <= at /\ at + Len(rem) <= Len(e.before)) =>
               e.after = SubSeq(e.before, 1, at) \o add
                         \o SubSeq(e.before, at + Len(rem) + 1, Len(e.before))

\* A hunk of added lines only, whatever its old_start.
OnlyAdds(h) ==
    /\ AddedBlock(h) # <<>>
    /\ \A k \in 1..Len(h.lines) : h.lines[k] = <<>> \/ h.lines[k][1] = "+"

\* The offset brought into the range 0..length.
Clamp(at, length) == IF at < 0 THEN 0 ELSE IF at > length THEN length ELSE at

\* C19: a hunk of added lines only inserts them at the offset old_start - 1
\* clamped to 0..length: at the start when old_start = 0, at the end when
\* old_start > length + 1; the added lines are never dropped.
C19_InsertionClamped ==
    \A n \in 1..Len(manual.hunk_log) :
        LET e == manual.hunk_log[n]
            at == Clamp(e.hunk.old_start - 1, Len(e.before))
        IN OnlyAdds(e.hunk) =>
              e.after = SubSeq(e.before, 1, at) \o AddedBlock(e.hunk)
                        \o SubSeq(e.before, at + 1, Len(e.before))

\* The same for the hunks whose offset is in the range already.
InsertionInRange ==
    \A n \in 1..Len(manual.hunk_log) :
        LET e == manual.hunk_log[n]
            at == e.hunk.old_start - 1
        IN (OnlyAdds(e.hunk) /\ 0 <= at /\ at <= Len(e.before)) =>
              e.after = SubSeq(e.before, 1, at) \o AddedBlock(e.hunk)
                        \o SubSeq(e.before, at + 1, Len(e.before))

\* The added block with the terminator of its last line taken off.
StrippedBlock(h) ==
    LET add == AddedBlock(h)
        last == add[Len(add)]
    IN [add EXCEPT ![Len(add)] = SubSeq(last, 1, Len(last) - 1)]

\* C20: when an existing file is modified by a hunk whose last added line
\* is followed by the no-newline marker, that line stands in the result
\* without a line terminator: the lines after the hunk are the lines before
\* it with the removed lines replaced by the added block, its last line
\* unterminated.
C20_MarkerOnModify ==
    \A n \in 1..Len(manual.hunk_log) :
        LET e == manual.hunk_log[n]
            rem == RemovedBlock(e.hunk)
        IN (EndsWithMarker(<<e.hunk>>) /\ HunkTakesEffect(e.before, e.hunk)) =>
              \E k \in 0..Len(e.before) :
                  e.after = SubSeq(e.before, 1, k) \o StrippedBlock(e.hunk)
                            \o SubSeq(e.before, k + Len(rem) + 1, Len(e.before))

\* The destination path of a file header "diff --git a/<p> b/<p>": the
\* second half of what follows "diff --git a/", without its " b/".
Destination(line) ==
    LET n == (Len(line) - 16) \div 2
    IN IF n >= 1 THEN SubSeq(line, Len(line) - n + 1, Len(line)) ELSE <<>>

FileHeaders(text) == {k \in 1..Len(text) : StartsWith(text[k], DiffGitPrefix)}

\* No later section of the text has the destination of the section at k.
LastSectionFor(text, k) ==
    \A m \in FileHeaders(text) : m > k => Destination(text[m]) # Destination(text[k])

\* The well-formed hunk headers of a section, in order.
HunkHeaders(sec) ==
    SelectSeq(sec, LAMBDA l : StartsWith(l, <<"@", "@">>) /\ ~MalformedHunkHeader(l))

\* The start written in the old range of a hunk header.
HeaderOldStart(line) == DigitsValue(BeforeComma(Tail(SplitWS(line)[2])))

IsHeader(l) == StartsWith(l, <<"@", "@">>) \/ StartsWith(l, DiffGitPrefix)

NoWhitespace(path) == \A k \in 1..Len(path) : path[k] \notin Whitespace

\* C21: the line that ends a hunk's body is not consumed.  Every file
\* header of the text (naming a path without whitespace) has its file
\* change, and a text section holds one hunk for every hunk header written
\* in it, in order and with that header's start; no header line is among
\* the lines of a hunk.
C21_BoundaryNotConsumed ==
    (manual.ran /\ manual.parsed) =>
        LET text == patches[ManualPatch].text
            info == manual.file_changes.info
        IN \A k \in FileHeaders(text) :
              LET p == Destination(text[k])
                  hs == HunkHeaders(SectionAt(text, k))
              IN (p # <<>> /\ NoWhitespace(p) /\ LastSectionFor(text, k)) =>
                    /\ p \in DOMAIN info
                    /\ ~info[p].is_binary =>
                          /\ Len(info[p].hunks) = Len(hs)
                          /\ \A n \in 1..Len(hs) :
                                /\ info[p].hunks[n].old_start = HeaderOldStart(hs[n])
                                /\ \A m \in 1..Len(info[p].hunks[n].lines) :
                                      ~IsHeader(info[p].hunks[n].lines[m])

\* A hunk of f was followed by a hunk header, and that hunk by the file
\* header of g: f has its two hunks and g its one.
C21_Witness ==
    /\ AfterManual /\ patches[i].text = TwoHunksTwoFiles
    /\ manual.file_changes.order = <<PathF, PathG>>
    /\ Len(manual.file_changes.info[PathF].hunks) = 2
    /\ Len(manual.file_changes.info[PathG].hunks) = 1
    /\ impl[i].files[PathG] = <<"b", NL, "a", NL>>

\* The destination paths of the file headers of the text, in the order of
\* their first header.
RECURSIVE DestinationsFrom(_, _, _)
DestinationsFrom(text, k, seen) ==
    IF k > Len(text) THEN <<>>
    ELSE IF StartsWith(text[k], DiffGitPrefix) /\ Destination(text[k]) \notin seen
    THEN <<Destination(text[k])>>
         \o DestinationsFrom(text, k + 1, seen \cup {Destination(text[k])})
    ELSE DestinationsFrom(text, k + 1, seen)

\* C22: every file header "diff --git a/<p> b/<p>" starts a file change
\* keyed by <p>, also when <p> holds spaces: the file changes are keyed by
\* the destinations of the headers, in their order, and the hunks of the
\* (last) section for <p> are those of the file change of <p>.
C22_KeyedByDestination ==
    (manual.ran /\ manual.parsed) =>
        LET text == patches[ManualPatch].text
            info == manual.file_changes.info
        IN /\ manual.file_changes.order = DestinationsFrom(text, 1, {})
           /\ \A k \in FileHeaders(text) :
                 LET p == Destination(text[k]) IN
                 (LastSectionFor(text, k) /\ p \in DOMAIN info /\ ~info[p].is_binary) =>
                     Len(info[p].hunks) = Len(HunkHeaders(SectionAt(text, k)))

\* The same for the texts whose paths hold no whitespace.
KeyedWhenNoSpace ==
    (manual.ran /\ manual.parsed) =>
        LET text == patches[ManualPatch].text IN
        (\A k \in FileHeaders(text) : NoWhitespace(Destination(text[k]))) =>
            C22_KeyedByDestination

\* The lines with the first slice equal to the block rem replaced by add:
\* a function of the lines and the two blocks alone.
ChangeFirstOccurrence(ls, rem, add) ==
    LET at == {k \in 0..Len(ls) : OccursAt(ls, rem, k)}
        k == CHOOSE m \in at : \A j \in at : m <= j
    IN SubSeq(ls, 1, k) \o add \o SubSeq(ls, k + Len(rem) + 1, Len(ls))

\* C23: in replace and delete hunks the position is chosen by the removed
\* block alone.  Whatever the hunk's old_start and context lines, a hunk
\* whose removed block occurs changes its first occurrence.
C23_PositionByRemovedBlock ==
    \A n \in 1..Len(manual.hunk_log) :
        LET e == manual.hunk_log[n]
            rem == RemovedBlock(e.hunk)
        IN (rem # <<>> /\ Occurs(e.before, rem)) =>
              e.after = ChangeFirstOccurrence(e.before, rem, AddedBlock(e.hunk))

\* A hunk written for the third line of a, b, a, with a context line the
\* file does not hold, changed the first line.
C23_Witness ==
    /\ AfterManual /\ manual.before = AbaTree /\ patches[i].text = LaterOccurrence
    /\ Len(manual.hunk_log) = 1
    /\ manual.hunk_log[1].hunk.old_start = 3
    /\ ~Occurs(manual.hunk_log[1].before, << <<"c", NL>> >>)
    /\ impl[i].files[PathF] = <<"x", NL, "b", NL, "a", NL>>

\* The patch files before the one the record manual is about.
EarlierPatches == {k \in 1..(ManualPatch - 1) : patches[k].exists}

\* C24: a patch the manual engine failed on is neither staged nor committed
\* nor counted as applied: after the failure the controller is at the next
\* patch, having run nothing but the three tiers.
C24_FailedNotCommitted ==
    state = "Failed" =>
        /\ manual.ran /\ ~manual.success
        /\ calls = << <<"strict", 1>>, <<"lenient", 1>>, <<"manual", 1>> >>
        /\ ~committed
        /\ MovedOn
        /\ EarlierPatches = {} => implementations_applied = 0

\* The engine failed after it had written a file.
C24_Witness ==
    /\ state = "Failed" /\ pc = "done"
    /\ manual.writes # <<>>
    /\ \E k \in 1..Len(manual.report) : manual.report[k][2] = "Created"
    /\ implementations_applied = 0

\* C25: the engine reads the whole text before it touches the tree.  When
\* the scan of the text fails the engine returns False and the tree is as it
\* was: no file was created or written.
C25_ParseBeforeTouch ==
    (manual.ran /\ ~manual.parsed) =>
        /\ ~manual.success /\ state = "Failed"
        /\ manual.writes = <<>> /\ manual.report = <<>>
        /\ impl[ManualPatch].files = manual.before

\* The scan failed on the section for g after it had read a hunk that
\* applies to f, and f is unchanged.
C25_Witness ==
    /\ manual.ran /\ ~manual.parsed
    /\ patches[ManualPatch].text = ParseFailsLate
    /\ PathF \in DOMAIN manual.file_changes.info
    /\ Len(manual.file_changes.info[PathF].hunks) = 1
    /\ Occurs(ReadLines(manual.before[PathF]),
              RemovedBlock(manual.file_changes.info[PathF].hunks[1]))
    /\ impl[ManualPatch].files[PathF] = <<"a", NL>>

\* Every step of apply_patches leaves the original tree as it was.
OriginalUntouched == original' = original

\* Every step leaves the impl directories of the other patches as they were.
OthersUntouched == \A k \in 1..NumPatches : k # i => impl'[k] = impl[k]

\* The copy step leaves impl_<i> equal to the original tree.
FreshCopy == (pc = "copy" /\ pc' = "git_init") => impl'[i] = Dir(original)

\* C26: the patches are applied independently: impl_<i> starts as a fresh
\* copy of the original tree, no step writes to the original tree, and no
\* step taken for patch i changes the impl directory of another patch.
C26_Independent == [][OriginalUntouched /\ OthersUntouched /\ FreshCopy]_vars

\* The same with the steps of the manual engine left aside: the copy is
\* fresh and the steps of the controller itself stay in impl_<i>.
ControllerStaysInside ==
    [][(pc # "manual") => (OriginalUntouched /\ OthersUntouched /\ FreshCopy)]_vars

====
